---- MODULE Spec2Model ----
(***************************************************************************)
(* A model of the NCM decoder of ncmdump-wasm (src/src/ncm.rs).            *)
(*                                                                         *)
(* Bytes are the naturals 0..255.  A Vec<u8> or slice is a sequence, so    *)
(* Rust's data[i] is data[i + 1] here; so is the key box [u8; 256], whose  *)
(* element at the source's index j is At(box, j).                          *)
(***************************************************************************)
EXTENDS Integers, Sequences, FiniteSets

VARIABLES
    overflow_checks, \* build profile: are integer overflow checks compiled in
    data,            \* NcmDecoder.data: the bytes under the cursor
    pos,             \* NcmDecoder.data: the cursor's position
    pc,              \* the statement of NcmDecoder::dump that runs next
    key_box,         \* dump's local key_box
    metadata,        \* dump's local metadata: Option<Metadata>
    image,           \* dump's local image: Option<Image>
    aes_key,         \* read_aes_key()?[17..], the argument of build_key_box
    audio,           \* dump's local audio: Audio
    output,          \* the DumpOutput that NcmDump::dump returns
    kb,              \* the loop of build_key_box, one iteration at a time
    cipher           \* a buffer under repeated decode_audio

vars == <<overflow_checks, data, pos, pc, key_box, metadata, image, aes_key,
          audio, output, kb, cipher>>

(***************************************************************************)
(* Bounds of the model.                                                    *)
(***************************************************************************)
MaxKeyLen == 2
MaxBufLen == 3
MaxTailLen == 2
MaxSmallLen == 6
MaxChunks == 2
MaxLongLen == 300

(***************************************************************************)
(* u8 arithmetic.                                                          *)
(***************************************************************************)
RECURSIVE XorBits(_, _, _)
XorBits(a, b, n) ==
    IF n = 0 THEN 0
    ELSE ((a + b) % 2) + 2 * XorBits(a \div 2, b \div 2, n - 1)

\* a ^ b on u8, for every a and b, computed once
XorTable ==
    SubSeq([a \in 1..256 |->
               SubSeq([b \in 1..256 |-> XorBits(a - 1, b - 1, 8)], 1, 256)], 1, 256)

Xor(a, b) == XorTable[a + 1][b + 1]

Range(s) == {s[k] : k \in 1..Len(s)}

RECURSIVE SeqsUpTo(_, _)
SeqsUpTo(S, n) ==
    IF n = 0 THEN {<<>>}
    ELSE LET shorter == SeqsUpTo(S, n - 1)
         IN  shorter \cup {Append(s, x) : s \in shorter, x \in S}

(***************************************************************************)
(* decode_audio: the keystream byte of position j and the XOR of the       *)
(* first read_size bytes of data; the bytes after them are left alone.     *)
(***************************************************************************)
At(box, j) == box[j + 1]

KeyStreamByte(box, j) ==
    At(box, (At(box, j) + At(box, (At(box, j) + j) % 256)) % 256)

decode_audio_Sum(d, read_size, box) ==
    [k \in 1..read_size |-> (d[k] + KeyStreamByte(box, k % 256)) % 256]
        \o SubSeq(d, read_size + 1, Len(d))

decode_audio(d, read_size, box) ==
    [k \in 1..read_size |-> Xor(d[k], KeyStreamByte(box, k % 256))]
        \o SubSeq(d, read_size + 1, Len(d))

(***************************************************************************)
(* init_key_box and build_key_box.  The loop state is a record; one        *)
(* iteration is build_key_box_step.  The sum of line 228 is a sum of three *)
(* u8 values: with overflow checks it panics above 255, without them it    *)
(* wraps.  key_data[key_offset] panics when the key is empty.              *)
(***************************************************************************)
init_key_box == SubSeq([k \in 1..256 |-> k - 1], 1, 256)

\* key_box.swap(a, b)
Swap(box, a, b) == [box EXCEPT ![a + 1] = At(box, b), ![b + 1] = At(box, a)]

KeyBoxStart ==
    [i |-> 0, key_box |-> init_key_box, last_byte |-> 0, key_offset |-> 0,
     panicked |-> FALSE]

build_key_box_step(st, key_data) ==
    IF st.key_offset >= Len(key_data)
    THEN [st EXCEPT !.panicked = TRUE]
    ELSE LET s1 == At(st.key_box, st.i) + st.last_byte
             s2 == (s1 % 256) + key_data[st.key_offset + 1]
             c  == s2 % 256
             ko == st.key_offset + 1
         IN  IF overflow_checks /\ (s1 > 255 \/ s2 > 255)
             THEN [st EXCEPT !.panicked = TRUE]
             ELSE [i          |-> st.i + 1,
                   key_box    |-> Swap(st.key_box, st.i, c),
                   last_byte  |-> c,
                   key_offset |-> IF ko >= Len(key_data) THEN 0 ELSE ko,
                   panicked   |-> FALSE]

\* n iterations of the loop from st, stopping at a panic
RECURSIVE build_key_box_loop(_, _, _)
build_key_box_loop(st, key_data, n) ==
    IF st.panicked \/ n = 0 THEN st
    ELSE IF n = 1 THEN build_key_box_step(st, key_data)
    ELSE build_key_box_loop(build_key_box_loop(st, key_data, n \div 2),
                            key_data, n - n \div 2)

\* the loop state when build_key_box returns, or the one in which it panics
build_key_box(key_data) == build_key_box_loop(KeyBoxStart, key_data, 256)

(***************************************************************************)
(* Constants of the source.                                                *)
(***************************************************************************)
CORE_KEY == <<104, 122, 72, 82, 65, 109, 115, 111, 53, 107, 73, 110, 98, 97, 120, 87>>

MODIFY_KEY == <<35, 49, 52, 108, 106, 107, 95, 33, 92, 93, 38, 48, 85, 60, 39, 40>>

\* b"CTENFDAM"
MAGIC_HEADER == <<67, 84, 69, 78, 70, 68, 65, 77>>

BUF_SIZE_Short == 32768 - 1

\* [0u8; 0x8000]
BUF_SIZE == 32768

Zeros(n) == SubSeq([k \in 1..n |-> 0], 1, n)

Min(a, b) == IF a < b THEN a ELSE b

(***************************************************************************)
(* Result<T, String>, Option<T> and the records of the source.             *)
(***************************************************************************)
Ok(v) == [ok |-> TRUE, val |-> v, err |-> ""]

Err(e) == [ok |-> FALSE, val |-> <<>>, err |-> e]

MetaA == [music_name |-> "A", album |-> "B", artist |-> <<"C">>]

MetaD == [music_name |-> "D", album |-> "E", artist |-> <<"F", "G">>]

Metadatas == {MetaA, MetaD}

NoMetadata == [some |-> FALSE, val |-> MetaA]

SomeMetadata(m) == [some |-> TRUE, val |-> m]

NoImage == [some |-> FALSE, format |-> "", data |-> <<>>]

SomeImage(f, d) == [some |-> TRUE, format |-> f, data |-> d]

NoAudio == [format |-> "", data |-> <<>>]

DumpOutput(d, m, r, e) == [data |-> d, metadata |-> m, result |-> r, extension |-> e]

\* nothing has been returned yet
NoOutput == DumpOutput(<<>>, "", "", "")

(***************************************************************************)
(* The Cursor<Vec<u8>>.  A read returns what is left, up to n bytes, and   *)
(* a position past the end reads nothing; read_exact fails when fewer than *)
(* n bytes are left; a seek may go past the end but not before the start.  *)
(***************************************************************************)
UnexpectedEof == "failed to fill whole buffer"

CursorRead(d, p, n) ==
    LET from == Min(p, Len(d))
        cnt  == Min(n, Len(d) - from)
    IN  [bytes |-> SubSeq(d, from + 1, from + cnt), pos |-> p + cnt]

read_exact(d, p, n) ==
    LET r == CursorRead(d, p, n)
    IN  IF Len(r.bytes) < n THEN Err(UnexpectedEof)
        ELSE [ok |-> TRUE, val |-> r.bytes, err |-> "", pos |-> r.pos]

from_le_bytes(b) == b[1] + 256 * b[2] + 65536 * b[3] + 16777216 * b[4]

read_le_u32(d, p) ==
    LET r == read_exact(d, p, 4)
    IN  IF ~r.ok THEN r
        ELSE [ok |-> TRUE, val |-> from_le_bytes(r.val), err |-> "", pos |-> r.pos]

\* skip(byte_num): SeekFrom::Current(byte_num)
skip(p, byte_num) ==
    IF p + byte_num < 0
    THEN Err("invalid seek to a negative or overflowing position")
    ELSE Ok(p + byte_num)

(***************************************************************************)
(* The libraries the decoder calls.  Their results are not computed here:  *)
(* each call is the set of results the library can give for an argument of *)
(* that shape, and the calling action takes any one of them.               *)
(***************************************************************************)
\* "neteasecloudmusic", the 17 bytes before the key material
KeyPrefix == <<110, 101, 116, 101, 97, 115, 101, 99, 108, 111, 117, 100, 109,
               117, 115, 105, 99>>

\* "music:"
MusicPrefix == <<109, 117, 115, 105, 99, 58>>

\* the shortest JSON text serde_json parses into a Metadata (all 13 fields)
MinMetadataJsonLen == 166

DumpKeys == {<<>>, <<255>>, <<3, 200>>}

KeyPlaintexts ==
    {KeyPrefix \o k : k \in DumpKeys} \cup {SubSeq(KeyPrefix, 1, 16)}

MetaPlaintexts ==
    {SubSeq(MusicPrefix, 1, 3), MusicPrefix \o Zeros(MinMetadataJsonLen)}

Plaintexts(key) == IF key = CORE_KEY THEN KeyPlaintexts ELSE MetaPlaintexts

\* Ecb::<Aes128, Pkcs7>: whole blocks only, and 1..16 bytes of padding go
aes_decrypt(ct, key) ==
    {Err("BlockModeError")} \cup
    (IF Len(ct) > 0 /\ Len(ct) % 16 = 0
     THEN {Ok(p) : p \in {q \in Plaintexts(key) :
                            Len(ct) - 16 <= Len(q) /\ Len(q) < Len(ct)}}
     ELSE {})

\* base64::decode: four characters give three bytes, less the padding
base64_decode(s) ==
    {Err("Invalid byte")} \cup
    (IF Len(s) % 4 # 0 THEN {}
     ELSE IF Len(s) = 0 THEN {Ok(<<>>)}
     ELSE {Ok(Zeros(3 * (Len(s) \div 4) - pad)) : pad \in 0..2})

\* serde_json::from_str::<Metadata>
from_str(text) ==
    {Err("expected value")} \cup
    (IF Len(text) >= MinMetadataJsonLen THEN {Ok(m) : m \in Metadatas} ELSE {})

to_string_EmptyNone(opt) ==
    IF ~opt.some THEN ""
    ELSE IF opt.val = MetaA
    THEN "{\"musicName\":\"A\",\"artist\":[[\"C\",0]],\"album\":\"B\"}"
    ELSE "{\"musicName\":\"D\",\"artist\":[[\"F\",0],[\"G\",0]],\"album\":\"E\"}"

\* serde_json::to_string(&Option<Metadata>): None is the JSON text null
to_string(opt) ==
    IF ~opt.some THEN "null"
    ELSE IF opt.val = MetaA
    THEN "{\"musicName\":\"A\",\"artist\":[[\"C\",0]],\"album\":\"B\"}"
    ELSE "{\"musicName\":\"D\",\"artist\":[[\"F\",0],[\"G\",0]],\"album\":\"E\"}"

(***************************************************************************)
(* AudioFileType::from_header_data and ImageFileType::from_header_data.    *)
(* The image one panics on a header that is none of PNG, JPEG and GIF.     *)
(***************************************************************************)
FlacMagic == <<102, 76, 97, 67>>

Id3Magic == <<73, 68, 51>>

AudioFileType_from_header_data_Id3Only(h) ==
    IF SubSeq(h, 1, 4) = FlacMagic THEN "Flac"
    ELSE IF SubSeq(h, 1, 3) = Id3Magic THEN "Mp3"
    ELSE "Flac"

AudioFileType_from_header_data(h) ==
    IF SubSeq(h, 1, 4) = FlacMagic THEN "Flac"
    ELSE IF SubSeq(h, 1, 3) = Id3Magic THEN "Mp3"
    ELSE "Mp3"

PngMagic == <<137, 80, 78, 71, 13, 10, 26, 10>>

JpegMagic == <<255, 216, 255, 224>>

GifMagic == <<71, 73, 70>>

ImageFileType_from_header_data(h) ==
    IF SubSeq(h, 1, 8) = PngMagic THEN "Png"
    ELSE IF SubSeq(h, 1, 4) = JpegMagic THEN "Jpeg"
    ELSE IF SubSeq(h, 1, 3) = GifMagic THEN "Gif"
    ELSE "panic"

(***************************************************************************)
(* read_audio.  The first four bytes are read into buf, decoded and        *)
(* classified, and the cursor goes back over them; then the payload is     *)
(* read buf by buf, each read decoded from position 0 and appended.        *)
(* audio_len only sizes the Vec; the cursor is never past the end here,    *)
(* since the image length has just been read, so eof_offset - cur_offset   *)
(* does not underflow.                                                     *)
(***************************************************************************)
InitBuf == Zeros(BUF_SIZE)

\* lines 146..149: the header read, the rewind and the detection
read_audio_header_NoRewind(d, p, box) ==
    LET r == read_exact(d, p, 4)
    IN  IF ~r.ok THEN [ok |-> FALSE, err |-> r.err]
        ELSE LET buf == decode_audio(r.val \o SubSeq(InitBuf, 5, BUF_SIZE), 4, box)
             IN  [ok |-> TRUE, err |-> "", pos |-> r.pos, buf |-> buf,
                  filetype |-> AudioFileType_from_header_data(SubSeq(buf, 1, 4))]

read_audio_header(d, p, box) ==
    LET r == read_exact(d, p, 4)
    IN  IF ~r.ok THEN [ok |-> FALSE, err |-> r.err]
        ELSE LET back == skip(r.pos, -4)
                 buf  == decode_audio(r.val \o SubSeq(InitBuf, 5, BUF_SIZE), 4, box)
             IN  IF ~back.ok THEN [ok |-> FALSE, err |-> back.err]
                 ELSE [ok |-> TRUE, err |-> "", pos |-> back.val, buf |-> buf,
                       filetype |-> AudioFileType_from_header_data(SubSeq(buf, 1, 4))]

\* lines 151..158: the loop, until a read returns no byte
RECURSIVE read_audio_loop(_, _, _, _, _)
read_audio_loop(d, p, box, buf, audio_data) ==
    LET r         == CursorRead(d, p, BUF_SIZE)
        read_size == Len(r.bytes)
        filled    == r.bytes \o SubSeq(buf, read_size + 1, Len(buf))
        decoded   == decode_audio(filled, read_size, box)
    IN  IF read_size = 0 THEN [data |-> audio_data, pos |-> r.pos]
        ELSE read_audio_loop(d, r.pos, box, decoded,
                             audio_data \o SubSeq(decoded, 1, read_size))

read_audio(d, p, box) ==
    LET h == read_audio_header(d, p, box)
    IN  IF ~h.ok THEN [ok |-> FALSE, err |-> h.err, audio |-> NoAudio, pos |-> p]
        ELSE LET l == read_audio_loop(d, h.pos, box, h.buf, <<>>)
             IN  [ok |-> TRUE, err |-> "", pos |-> l.pos,
                  audio |-> [format |-> h.filetype, data |-> l.data]]

(***************************************************************************)
(* add_flac_metadata and add_mp3_metadata.  The tag libraries are not      *)
(* modelled: a serialized tag is its magic and one value, 256 or above,    *)
(* that stands for the rest of it.                                         *)
(***************************************************************************)
TagBody(img, meta) ==
    256 + (IF img.some THEN 1 ELSE 0) + (IF meta.some THEN 2 ELSE 0)

\* metaflac::Tag::write_to
FlacTagBytes(img, meta) == FlacMagic \o <<TagBody(img, meta)>>

\* id3::Tag::write_to(.., Id3v24)
Id3TagBytes(img, meta) == Id3Magic \o <<4, 0, TagBody(img, meta)>>

\* the end of the metadata blocks of a FLAC stream, 0 when they are cut short
RECURSIVE FlacBlocksEnd(_, _)
FlacBlocksEnd(d, p) ==
    IF p + 4 > Len(d) THEN 0
    ELSE LET size == 65536 * d[p + 2] + 256 * d[p + 3] + d[p + 4]
             next == p + 4 + size
         IN  IF next > Len(d) THEN 0
             ELSE IF d[p + 1] >= 128 THEN next
             ELSE FlacBlocksEnd(d, next)

\* the results of add_flac_metadata: the new audio.data, or an error.  The
\* bytes kept after the new tag are what Tag::skip_metadata returns for a
\* cursor that read_from has moved: those after the metadata blocks, or, if
\* it rewinds to the start, the whole old stream.
add_flac_metadata(a, img, meta) ==
    IF ~img.some /\ ~meta.some THEN {Ok(a.data)}
    ELSE LET end == IF SubSeq(a.data, 1, 4) = FlacMagic
                    THEN FlacBlocksEnd(a.data, 4) ELSE 0
         IN  IF end = 0 THEN {Err("reader does not contain flac metadata")}
             ELSE {Ok(FlacTagBytes(img, meta) \o SubSeq(a.data, end + 1, Len(a.data))),
                   Ok(FlacTagBytes(img, meta) \o a.data)}

\* the results of add_mp3_metadata; write_to writes into the clone, a Vec
add_mp3_metadata(a, img, meta) ==
    IF ~img.some /\ ~meta.some THEN {Ok(a.data)}
    ELSE IF SubSeq(a.data, 1, 3) = Id3Magic /\ Len(a.data) >= 10
    THEN {Err("tag parse error"), Ok(a.data \o Id3TagBytes(img, meta))}
    ELSE {Err("reader does not contain an id3 tag")}

(***************************************************************************)
(* The steps of NcmDecoder::dump before read_audio.                        *)
(***************************************************************************)
NotNcm == "This file is not in ncm format"

check_format_And(d, p) ==
    LET r   == CursorRead(d, p, 8)
        buf == r.bytes \o Zeros(8 - Len(r.bytes))
    IN  IF Len(r.bytes) # 8 /\ buf # MAGIC_HEADER
        THEN [ok |-> FALSE, err |-> NotNcm, pos |-> r.pos]
        ELSE [ok |-> TRUE, err |-> "", pos |-> r.pos]

check_format(d, p) ==
    LET r   == CursorRead(d, p, 8)
        buf == r.bytes \o Zeros(8 - Len(r.bytes))
    IN  IF Len(r.bytes) # 8 \/ buf # MAGIC_HEADER
        THEN [ok |-> FALSE, err |-> NotNcm, pos |-> r.pos]
        ELSE [ok |-> TRUE, err |-> "", pos |-> r.pos]

XorAll(bytes, mask) == [k \in 1..Len(bytes) |-> Xor(bytes[k], mask)]

\* a length-prefixed blob: read_le_u32, then read_exact of that many bytes
read_blob(d, p) ==
    LET n == read_le_u32(d, p)
    IN  IF ~n.ok THEN n
        ELSE read_exact(d, n.pos, n.val)

\* the results of read_aes_key
read_aes_key(d, p) ==
    LET b == read_blob(d, p)
    IN  IF ~b.ok THEN {[ok |-> FALSE, val |-> <<>>, err |-> b.err, pos |-> p]}
        ELSE {[ok |-> r.ok, val |-> r.val, err |-> r.err, pos |-> b.pos] :
                 r \in aes_decrypt(XorAll(b.val, 100), CORE_KEY)}

\* what read_metadata does with a blob of meta_len > 0 bytes
parse_metadata(meta_data) ==
    IF Len(meta_data) < 22 THEN {[kind |-> "panic", val |-> NoMetadata, err |-> ""]}
    ELSE UNION {
        IF ~b64.ok THEN {[kind |-> "err", val |-> NoMetadata, err |-> b64.err]}
        ELSE UNION {
            IF ~dec.ok THEN {[kind |-> "err", val |-> NoMetadata, err |-> dec.err]}
            ELSE IF Len(dec.val) < 6
            THEN {[kind |-> "panic", val |-> NoMetadata, err |-> ""]}
            ELSE {IF ~m.ok THEN [kind |-> "err", val |-> NoMetadata, err |-> m.err]
                  ELSE [kind |-> "ok", val |-> SomeMetadata(m.val), err |-> ""] :
                     m \in from_str(SubSeq(dec.val, 7, Len(dec.val)))}
            : dec \in aes_decrypt(b64.val, MODIFY_KEY)}
        : b64 \in base64_decode(SubSeq(meta_data, 23, Len(meta_data)))}

\* the results of read_metadata
read_metadata(d, p) ==
    LET b == read_blob(d, p)
    IN  IF ~b.ok THEN {[kind |-> "err", val |-> NoMetadata, err |-> b.err, pos |-> p]}
        ELSE IF Len(b.val) = 0
        THEN {[kind |-> "ok", val |-> NoMetadata, err |-> "", pos |-> b.pos]}
        ELSE {[kind |-> r.kind, val |-> r.val, err |-> r.err, pos |-> b.pos] :
                 r \in parse_metadata(XorAll(b.val, 99))}

read_image(d, p) ==
    LET b == read_blob(d, p)
    IN  IF ~b.ok THEN [kind |-> "err", val |-> NoImage, err |-> b.err, pos |-> p]
        ELSE IF Len(b.val) = 0
        THEN [kind |-> "ok", val |-> NoImage, err |-> "", pos |-> b.pos]
        ELSE IF Len(b.val) < 8 \/ ImageFileType_from_header_data(b.val) = "panic"
        THEN [kind |-> "panic", val |-> NoImage, err |-> "", pos |-> b.pos]
        ELSE [kind |-> "ok", err |-> "", pos |-> b.pos,
              val |-> SomeImage(ImageFileType_from_header_data(b.val), b.val)]

(***************************************************************************)
(* The table of the reference algorithm, sums taken modulo 256.            *)
(***************************************************************************)
RefStep(r, key) ==
    LET c == (At(r.T, r.i) + r.last + key[r.off + 1]) % 256
    IN  [T |-> Swap(r.T, r.i, c), last |-> c, off |-> (r.off + 1) % Len(key),
         i |-> r.i + 1]

RECURSIVE RefKeyBoxLoop(_, _, _)
RefKeyBoxLoop(r, key, n) ==
    IF r.i = 256 \/ n = 0 THEN r
    ELSE IF n = 1 THEN RefStep(r, key)
    ELSE RefKeyBoxLoop(RefKeyBoxLoop(r, key, n \div 2), key, n - n \div 2)

RefKeyBox(key) ==
    RefKeyBoxLoop([T |-> SubSeq([k \in 1..256 |-> k - 1], 1, 256),
                   last |-> 0, off |-> 0, i |-> 0], key, 256).T

(***************************************************************************)
(* The input buffers of the model: NCM files put together from a key blob, *)
(* a metadata blob, an image blob and a payload, and damaged ones.         *)
(***************************************************************************)
le_u32(n) == <<n % 256, (n \div 256) % 256, (n \div 65536) % 256, n \div 16777216>>

NcmFile(keyblob, metablob, imageblob, payload) ==
    MAGIC_HEADER \o <<0, 0>>
        \o le_u32(Len(keyblob)) \o keyblob
        \o le_u32(Len(metablob)) \o metablob
        \o Zeros(9)
        \o le_u32(Len(imageblob)) \o imageblob
        \o payload

AudioTail == [k \in 1..MaxTailLen |-> (17 * k) % 256]

\* decoded payloads: a FLAC stream of one empty last block, an empty ID3v2.3
\* tag before a frame, a bare MPEG frame, and two that are too short
AudioPlains ==
    {FlacMagic \o <<129, 0, 0, 0>> \o AudioTail,
     Id3Magic \o <<3, 0, 0, 0, 0, 0, 0>> \o AudioTail,
     <<255, 251, 144, 0>> \o AudioTail,
     <<102, 76>>,
     <<>>}

EncryptKeys == {<<255>>, <<3, 200>>}

Payloads ==
    {decode_audio(a, Len(a), RefKeyBox(k)) : a \in AudioPlains, k \in EncryptKeys}

ImageBlobs ==
    {<<>>, PngMagic \o <<1>>, JpegMagic \o <<0, 16, 74, 70>>,
     GifMagic \o <<56, 57, 97, 1, 0>>}

\* 22 + 236 bytes: the marker and the base64 text of 176 encrypted bytes
MetaBlobs == {<<>>, Zeros(258)}

GoodInputs ==
    {NcmFile(Zeros(32), m, i, a) : m \in MetaBlobs, i \in ImageBlobs, a \in Payloads}

Canonical == NcmFile(Zeros(32), <<>>, <<>>, CHOOSE a \in Payloads : Len(a) > 4)

DamagedInputs ==
    {NcmFile(k, <<>>, <<>>, <<1, 2, 3, 4>>) : k \in {<<>>, Zeros(5), Zeros(16)}}
    \cup {NcmFile(Zeros(32), m, <<>>, <<1, 2, 3, 4>>) :
             m \in {Zeros(5), Zeros(22), Zeros(23), Zeros(46)}}
    \cup {NcmFile(Zeros(32), <<>>, i, <<1, 2, 3, 4>>) :
             i \in {Zeros(3), Zeros(8), <<71, 73, 70>>}}
    \cup {SubSeq(Canonical, 1, n) : n \in 0..Len(Canonical)}
    \cup {[Canonical EXCEPT ![k] = 0] : k \in 1..8}

DumpInputs == GoodInputs \cup DamagedInputs

(***************************************************************************)
(* NcmDump::dump over NcmDecoder::dump, one action per statement.  An Err  *)
(* becomes the DumpOutput of line 34; a panic returns nothing.             *)
(***************************************************************************)
NoCipher == [x |-> <<>>, n |-> 0, T |-> init_key_box, cur |-> <<>>, applied |-> 0]

NoKb == [key |-> <<>>, st |-> KeyBoxStart]

Locals == <<key_box, metadata, image, aes_key, audio>>

Fail(e) ==
    /\ pc' = "done"
    /\ output' = DumpOutput(<<>>, "", e, "")

Panic ==
    /\ pc' = "panicked"
    /\ UNCHANGED output

Goto(next) ==
    /\ pc' = next
    /\ UNCHANGED output

Init ==
    /\ overflow_checks \in BOOLEAN
    /\ data \in DumpInputs
    /\ pos = 0
    /\ pc = "check_format"
    /\ key_box = init_key_box
    /\ metadata = NoMetadata
    /\ image = NoImage
    /\ aes_key = <<>>
    /\ audio = NoAudio
    /\ output = NoOutput
    /\ kb = NoKb
    /\ cipher = NoCipher

CheckFormat ==
    /\ pc = "check_format"
    /\ LET r == check_format(data, pos)
       IN  /\ pos' = r.pos
           /\ IF r.ok THEN Goto("skip_2") ELSE Fail(r.err)
    /\ UNCHANGED <<overflow_checks, data, Locals, kb, cipher>>

Skip2 ==
    /\ pc = "skip_2"
    /\ LET r == skip(pos, 2)
       IN  IF r.ok THEN pos' = r.val /\ Goto("read_aes_key")
           ELSE UNCHANGED pos /\ Fail(r.err)
    /\ UNCHANGED <<overflow_checks, data, Locals, kb, cipher>>

\* self.read_aes_key()?[17..]
ReadAesKey ==
    /\ pc = "read_aes_key"
    /\ \E r \in read_aes_key(data, pos) :
          /\ pos' = r.pos
          /\ IF ~r.ok THEN UNCHANGED aes_key /\ Fail(r.err)
             ELSE IF Len(r.val) < 17 THEN UNCHANGED aes_key /\ Panic
             ELSE aes_key' = SubSeq(r.val, 18, Len(r.val)) /\ Goto("build_key_box")
    /\ UNCHANGED <<overflow_checks, data, key_box, metadata, image, audio, kb, cipher>>

BuildKeyBox ==
    /\ pc = "build_key_box"
    /\ LET st == build_key_box(aes_key)
       IN  IF st.panicked THEN UNCHANGED key_box /\ Panic
           ELSE key_box' = st.key_box /\ Goto("read_metadata")
    /\ UNCHANGED <<overflow_checks, data, pos, metadata, image, aes_key, audio, kb, cipher>>

ReadMetadata ==
    /\ pc = "read_metadata"
    /\ \E r \in read_metadata(data, pos) :
          /\ pos' = r.pos
          /\ metadata' = r.val
          /\ IF r.kind = "ok" THEN Goto("skip_9")
             ELSE IF r.kind = "panic" THEN Panic
             ELSE Fail(r.err)
    /\ UNCHANGED <<overflow_checks, data, key_box, image, aes_key, audio, kb, cipher>>

Skip9 ==
    /\ pc = "skip_9"
    /\ LET r == skip(pos, 9)
       IN  IF r.ok THEN pos' = r.val /\ Goto("read_image")
           ELSE UNCHANGED pos /\ Fail(r.err)
    /\ UNCHANGED <<overflow_checks, data, Locals, kb, cipher>>

ReadImage ==
    /\ pc = "read_image"
    /\ LET r == read_image(data, pos)
       IN  /\ pos' = r.pos
           /\ image' = r.val
           /\ IF r.kind = "ok" THEN Goto("read_audio")
              ELSE IF r.kind = "panic" THEN Panic
              ELSE Fail(r.err)
    /\ UNCHANGED <<overflow_checks, data, key_box, metadata, aes_key, audio, kb, cipher>>

ReadAudio ==
    /\ pc = "read_audio"
    /\ LET r == read_audio(data, pos, key_box)
       IN  /\ pos' = r.pos
           /\ audio' = r.audio
           /\ IF r.ok THEN Goto("add_metadata") ELSE Fail(r.err)
    /\ UNCHANGED <<overflow_checks, data, key_box, metadata, image, aes_key, kb, cipher>>

AddFlacMetadata ==
    /\ pc = "add_metadata"
    /\ audio.format = "Flac"
    /\ \E r \in add_flac_metadata(audio, image, metadata) :
          IF r.ok THEN audio' = [audio EXCEPT !.data = r.val] /\ Goto("to_string")
          ELSE UNCHANGED audio /\ Fail(r.err)
    /\ UNCHANGED <<overflow_checks, data, pos, key_box, metadata, image, aes_key, kb, cipher>>

AddMp3Metadata ==
    /\ pc = "add_metadata"
    /\ audio.format = "Mp3"
    /\ \E r \in add_mp3_metadata(audio, image, metadata) :
          IF r.ok THEN audio' = [audio EXCEPT !.data = r.val] /\ Goto("to_string")
          ELSE UNCHANGED audio /\ Fail(r.err)
    /\ UNCHANGED <<overflow_checks, data, pos, key_box, metadata, image, aes_key, kb, cipher>>

\* line 75 and line 33: the metadata text, and the result that is returned
Return ==
    /\ pc = "to_string"
    /\ pc' = "done"
    /\ output' = DumpOutput(audio.data, to_string(metadata), "ok",
                            IF audio.format = "Flac" THEN "flac" ELSE "mp3")
    /\ UNCHANGED <<overflow_checks, data, pos, Locals, kb, cipher>>

Next ==
    \/ CheckFormat
    \/ Skip2
    \/ ReadAesKey
    \/ BuildKeyBox
    \/ ReadMetadata
    \/ Skip9
    \/ ReadImage
    \/ ReadAudio
    \/ AddFlacMetadata
    \/ AddMp3Metadata
    \/ Return

Spec == Init /\ [][Next]_vars

(***************************************************************************)
(* read_audio on its own: a key box, and payloads of zero to a few bytes   *)
(* and of about one to MaxChunks buffers, after a few bytes that the       *)
(* cursor has already passed.  No metadata and no image.                   *)
(***************************************************************************)
Gen(seed, n) == SubSeq([k \in 1..n |-> (seed * k + 11) % 256], 1, n)

\* tables that build_key_box gives
AudioTables == {RefKeyBox(<<255>>), RefKeyBox(<<3, 200>>), RefKeyBox(<<1, 128, 77>>)}

SmallPlains ==
    {Gen(s, n) : s \in {5, 77}, n \in 0..MaxSmallLen}
    \cup {FlacMagic, FlacMagic \o <<129, 0, 0, 0, 9>>, SubSeq(FlacMagic, 1, 3),
          Id3Magic, Id3Magic \o <<4>>, Id3Magic \o <<3, 0, 0, 0, 0, 0, 0, 255, 251>>}

SmallPayloads ==
    SmallPlains \cup {decode_audio(a, Len(a), T) : a \in SmallPlains, T \in AudioTables}

BigPayloads ==
    {Gen(5, (c * BUF_SIZE + d) - 1) : c \in 1..MaxChunks, d \in 0..2}

Passed == <<1, 2, 3>>

InitAudio ==
    /\ overflow_checks = FALSE
    /\ data \in SmallPayloads \cup {Passed \o a : a \in SmallPayloads \cup BigPayloads}
    /\ pos = (IF Len(data) >= 3 /\ SubSeq(data, 1, 3) = Passed THEN 3 ELSE 0)
    /\ pc = "read_audio"
    /\ key_box \in AudioTables
    /\ metadata = NoMetadata
    /\ image = NoImage
    /\ aes_key = <<>>
    /\ audio = NoAudio
    /\ output = NoOutput
    /\ kb = NoKb
    /\ cipher = NoCipher

NextAudio ==
    \/ ReadAudio
    \/ AddFlacMetadata
    \/ AddMp3Metadata
    \/ Return

SpecAudio == InitAudio /\ [][NextAudio]_vars

(***************************************************************************)
(* build_key_box on its own, one iteration of its loop at a time.          *)
(***************************************************************************)
KeyBytes == {0, 1, 128, 255}

InitKeyBox ==
    /\ overflow_checks \in BOOLEAN
    /\ kb \in {[key |-> k, st |-> KeyBoxStart] : k \in SeqsUpTo(KeyBytes, MaxKeyLen)}
    /\ data = <<>>
    /\ pos = 0
    /\ pc = "build_key_box"
    /\ key_box = init_key_box
    /\ metadata = NoMetadata
    /\ image = NoImage
    /\ aes_key = <<>>
    /\ audio = NoAudio
    /\ output = NoOutput
    /\ cipher = NoCipher

KeyBoxStep ==
    /\ kb.st.i < 256
    /\ ~kb.st.panicked
    /\ kb' = [kb EXCEPT !.st = build_key_box_step(kb.st, kb.key)]
    /\ UNCHANGED <<overflow_checks, data, pos, pc, Locals, output, cipher>>

NextKeyBox == KeyBoxStep

SpecKeyBox == InitKeyBox /\ [][NextKeyBox]_vars

(***************************************************************************)
(* decode_audio on its own, applied to one buffer again and again.         *)
(***************************************************************************)
BufBytes == {0, 102, 255}

\* any 256 bytes: tables of build_key_box, the identity, and one that is no
\* permutation
CipherTables ==
    AudioTables \cup {init_key_box,
                      SubSeq([k \in 1..256 |-> (7 * k * k + 3) % 256], 1, 256)}

CipherBuffers == SeqsUpTo(BufBytes, MaxBufLen) \cup {Gen(77, MaxLongLen)}

InitCipher ==
    /\ overflow_checks = FALSE
    /\ cipher \in {[x |-> x, n |-> n, T |-> T, cur |-> x, applied |-> 0] :
                      x \in CipherBuffers, n \in 0..MaxLongLen, T \in CipherTables}
    /\ cipher.n <= Len(cipher.x)
    /\ data = <<>>
    /\ pos = 0
    /\ pc = "decode_audio"
    /\ key_box = init_key_box
    /\ metadata = NoMetadata
    /\ image = NoImage
    /\ aes_key = <<>>
    /\ audio = NoAudio
    /\ output = NoOutput
    /\ kb = NoKb

DecodeAudio ==
    /\ cipher.applied < 2
    /\ cipher' = [cipher EXCEPT !.cur = decode_audio(cipher.cur, cipher.n, cipher.T),
                                !.applied = cipher.applied + 1]
    /\ UNCHANGED <<overflow_checks, data, pos, pc, Locals, output, kb>>

NextCipher == DecodeAudio

SpecCipher == InitCipher /\ [][NextCipher]_vars

(***************************************************************************)
(* Properties.                                                             *)
(***************************************************************************)
BadHeader == Len(data) < 8 \/ SubSeq(data, 1, 8) # MAGIC_HEADER

IsErrorResult(o) ==
    /\ o.result \notin {"", "ok"}
    /\ o.data = <<>>
    /\ o.metadata = ""
    /\ o.extension = ""

\* C1: an input shorter than 8 bytes, or one whose first 8 bytes are not
\* CTENFDAM, is answered by the not-NCM error with empty audio, metadata and
\* extension, and no step after check_format runs: nothing is read or decoded.
C1_NotNcmRejected ==
    BadHeader =>
        /\ pc \in {"check_format", "done"}
        /\ pc = "check_format" => output = NoOutput
        /\ pc = "done" => output = DumpOutput(<<>>, "", NotNcm, "")
        /\ aes_key = <<>>
        /\ key_box = init_key_box
        /\ metadata = NoMetadata
        /\ image = NoImage
        /\ audio = NoAudio

C1_Witness ==
    /\ Len(data) >= 8
    /\ SubSeq(data, 1, 8) # MAGIC_HEADER
    /\ pc = "done"
    /\ output = DumpOutput(<<>>, "", NotNcm, "")

\* C2: for every input, dump returns a well-formed result and never aborts:
\* status "ok" with extension flac or mp3, or an error message with empty
\* audio, metadata and extension.
C2_AlwaysWellFormed ==
    /\ pc # "panicked"
    /\ pc = "done" =>
          \/ output.result = "ok" /\ output.extension \in {"flac", "mp3"}
          \/ IsErrorResult(output)

U32At(d, off) == from_le_bytes(SubSeq(d, off + 1, off + 4))

\* a good header and a key blob that gave key material, metadata and image
\* lengths of 0, and a payload that decodes to bytes beginning with fLaC
FlacNoExtras ==
    /\ ~BadHeader
    /\ aes_key # <<>>
    /\ Len(data) >= 14
    /\ LET kl == U32At(data, 10)
       IN  /\ Len(data) >= 35 + kl
           /\ U32At(data, 14 + kl) = 0
           /\ U32At(data, 27 + kl) = 0
           /\ decode_audio(SubSeq(data, 32 + kl, 35 + kl), 4, RefKeyBox(aes_key))
                 = FlacMagic

\* C3 as claimed: a well-formed file with no metadata and no image whose
\* payload decodes to fLaC is returned with status "ok", extension "flac" and
\* the empty string as its metadata.
C3_FlacNoExtrasEmptyMetadata ==
    FlacNoExtras /\ pc = "done" =>
        /\ output.result = "ok"
        /\ output.extension = "flac"
        /\ output.metadata = ""

\* C3 amended: such a file is returned with status "ok", extension "flac" and
\* the JSON text null as its metadata.
C3_FlacNoExtrasNullMetadata ==
    FlacNoExtras /\ pc = "done" =>
        /\ output.result = "ok"
        /\ output.extension = "flac"
        /\ output.metadata = "null"

C3_Witness ==
    /\ FlacNoExtras
    /\ pc = "done"
    /\ output.result = "ok"
    /\ output.extension = "flac"
    /\ output.metadata = "null"

\* C4: decode_audio applied twice with the same table and length gives back
\* the buffer, and the bytes from index n on are never changed.
C4_RoundTrip ==
    /\ Len(cipher.cur) = Len(cipher.x)
    /\ SubSeq(cipher.cur, cipher.n + 1, Len(cipher.x))
          = SubSeq(cipher.x, cipher.n + 1, Len(cipher.x))
    /\ cipher.applied = 2 => cipher.cur = cipher.x

C4_Witness ==
    /\ cipher.applied = 2
    /\ cipher.n > 256
    /\ cipher.n < Len(cipher.x)
    /\ cipher.cur = cipher.x
    /\ decode_audio(cipher.x, cipher.n, cipher.T) # cipher.x

\* the payload that read_audio finds under the cursor
Payload == SubSeq(data, pos + 1, Len(data))

DecodedHeader == decode_audio(SubSeq(Payload, 1, 4), 4, key_box)

\* C5 as claimed: for a payload of any length read_audio detects a format,
\* FLAC when the first four decoded bytes are fLaC and MP3 otherwise, and
\* does not fail.
C5_DetectionTotal ==
    [][pc = "read_audio" =>
          /\ pc' = "add_metadata"
          /\ audio'.format =
                (IF Len(Payload) >= 4 /\ DecodedHeader = FlacMagic
                 THEN "Flac" ELSE "Mp3")]_vars

\* C5 amended: for a payload of at least 4 bytes read_audio detects a format,
\* FLAC when the first four decoded bytes are fLaC and MP3 otherwise, and does
\* not fail; for a shorter payload it fails with the error of read_exact.
C5_DetectionFromFourBytes ==
    [][pc = "read_audio" =>
          IF Len(Payload) >= 4
          THEN /\ pc' = "add_metadata"
               /\ audio'.format = (IF DecodedHeader = FlacMagic THEN "Flac" ELSE "Mp3")
          ELSE /\ pc' = "done"
               /\ output' = DumpOutput(<<>>, "", UnexpectedEof, "")]_vars

C5_Witness ==
    /\ pc = "done"
    /\ output.result = "ok"
    /\ output.extension = "mp3"
    /\ Len(output.data) >= 4
    /\ SubSeq(output.data, 1, 3) # Id3Magic

\* C6: when an image or metadata is present and add_mp3_metadata succeeds, the
\* new audio bytes are the serialized ID3v2.4 tag followed by the old ones.
C6_TagBeforeAudio ==
    [][(/\ pc = "add_metadata"
        /\ audio.format = "Mp3"
        /\ image.some \/ metadata.some
        /\ pc' = "to_string")
          => audio'.data = Id3TagBytes(image, metadata) \o audio.data]_vars

StepOrder ==
    <<"check_format", "skip_2", "read_aes_key", "build_key_box", "read_metadata",
      "skip_9", "read_image", "read_audio", "add_metadata", "to_string", "done">>

StepAfter(p) == StepOrder[(CHOOSE k \in 1..Len(StepOrder) : StepOrder[k] = p) + 1]

\* C7: the steps run in the fixed order, each once and only after the ones
\* before it succeeded; the first step that fails ends the run with an error
\* result.
C7_FixedOrder ==
    [][pc' # pc =>
          \/ pc' = StepAfter(pc) /\ (pc' = "done" => output'.result = "ok")
          \/ pc' = "done" /\ IsErrorResult(output')]_vars

\* C8: for a payload of n >= 4 bytes read_audio gives n bytes, byte p being
\* the payload's byte p XOR the keystream byte of j = ((p mod 32768) + 1) & 0xFF:
\* the four bytes read for the detection are read again and decoded once.
C8_ChunkedDecode ==
    [][pc = "read_audio" /\ Len(Payload) >= 4 =>
          LET payload == Payload
          IN  /\ pc' = "add_metadata"
              /\ Len(audio'.data) = Len(payload)
              /\ \A k \in 1..Len(payload) :
                    audio'.data[k] =
                       Xor(payload[k],
                           KeyStreamByte(key_box, (((k - 1) % BUF_SIZE) + 1) % 256))]_vars

\* a second read of one byte, decoded with j = 1 again
C8_Witness ==
    /\ pc = "add_metadata"
    /\ Len(data) = 3 + BUF_SIZE + 1
    /\ Len(audio.data) = BUF_SIZE + 1
    /\ audio.data[BUF_SIZE + 1] = Xor(data[3 + BUF_SIZE + 1], KeyStreamByte(key_box, 1))

\* C9: for a non-empty key build_key_box does not fail, key_offset stays below
\* the key's length, and the table it returns is the reference algorithm's and
\* a permutation of 0..255.
C9_KeyBoxIsReference ==
    Len(kb.key) > 0 =>
        /\ ~kb.st.panicked
        /\ kb.st.key_offset < Len(kb.key)
        /\ kb.st.i = 256 =>
              /\ kb.st.key_box = RefKeyBox(kb.key)
              /\ Range(kb.st.key_box) = 0..255

\* C10: the decoding buffer by buffer gives the bytes of one pass over the
\* whole payload with j = (p + 1) & 0xFF for the payload's offset p.
C10_ChunkingUnobservable ==
    [][pc = "read_audio" /\ Len(Payload) >= 4 =>
          audio'.data = decode_audio(Payload, Len(Payload), key_box)]_vars

\* two reads, the second one byte short of the buffer
C10_Witness ==
    /\ pc = "add_metadata"
    /\ Len(audio.data) = 2 * BUF_SIZE - 1
    /\ Len(data) = 3 + Len(audio.data)

====
